---------------------------- MODULE Spec2Model ----------------------------
(***************************************************************************)
(* A model of metastreams_passwd.passwordfile: the PasswordFile credential *)
(* store and the _Storage object that keeps it in one JSON file.           *)
(*                                                                         *)
(* The file system is modelled by the two paths the code uses: the         *)
(* canonical path (filepath) and the temporary sibling (filepath + '~').   *)
(* A path holds no file, an empty file (just created or truncated by       *)
(* open(..., 'w')), a torn file (bytes that are no JSON document) or a     *)
(* JSON document.                                                          *)
(***************************************************************************)
EXTENDS Integers, Sequences, FiniteSets, TLC

(***************************************************************************)
(* Bounds of the model.                                                    *)
(***************************************************************************)
\* Usernames are 0 .. MaxUsers-1: the rank of a username in ascending
\* lexical order, 0 standing for the empty string.
MaxUsers == 2

Usernames == 0 .. (MaxUsers - 1)

\* The salts the hasher may draw: two hashes of one password are the same
\* string or not.
Salts == {"salt1", "salt2"}

\* Passwords are strings, modelled as tuples of characters: the empty
\* string, a whitespace-only string, a word and the word with trailing
\* whitespace.
Passwords == { <<>>, <<" ">>, <<"p">>, <<"p", " ">> }
\* The passwords that users are given; any password may be tried on them.
GivenPasswords == { <<>>, <<"p">> }

\* The callers; each holds at most one PasswordFile object on the one path.
Procs == {"c1", "c2"}
\* The caller of the calls that run one after the other.
Callers == {"c1"}

(***************************************************************************)
(* The hashing capability: argon2.PasswordHasher, an external library.     *)
(* A hash string encodes algorithm, parameters, salt and digest; the       *)
(* digest is modelled by the password it was computed from.                *)
(***************************************************************************)
CurrentParams == "default"
WeakParams == "parallelism=2,memory_cost=2048"

Argon2(params, salt, pw) ==
    [kind |-> "argon2", params |-> params, salt |-> salt, pw |-> pw]

\* A stored string that is no argon2 hash.
GarbageHash == [kind |-> "garbage"]

\* Python's None, True and False, and a list.
None == [kind |-> "None"]
True == [bool |-> TRUE]
False == [bool |-> FALSE]
Bool(b) == [bool |-> b]
List(seq) == [list |-> seq]

\* ph = PasswordHasher(); ph.hash(password) with the salt it drew.
ph_hash(password, salt) == Argon2(CurrentParams, salt, password)

\* ph.verify(hashed, password): True, or raises VerifyMismatchError or
\* InvalidHash.
ph_verify(hashed, password) ==
    IF hashed.kind # "argon2" THEN "InvalidHash"
    ELSE IF hashed.pw = password THEN "True"
    ELSE "VerifyMismatchError"

\* ph.check_needs_rehash(hashed)
ph_check_needs_rehash(hashed) == hashed.params # CurrentParams

(***************************************************************************)
(* Python dicts as functions on their key sets.                            *)
(***************************************************************************)
EmptyDict == [k \in {} |-> None]

DictSet(d, k, v) == [x \in (DOMAIN d) \cup {k} |-> IF x = k THEN v ELSE d[x]]

DictPop(d, k) == [x \in (DOMAIN d) \ {k} |-> d[x]]

DictGet(d, k) == IF k \in DOMAIN d THEN d[k] ELSE None

(***************************************************************************)
(* Files.                                                                  *)
(***************************************************************************)
\* _Storage.version
version == 3

\* The mode chmod sets: S_IREAD | S_IWRITE.
ModeOwnerRW == "0600"
\* The mode of a file open(..., 'w') creates: 0666 masked by the umask.
ModeCreated == "0666&~umask"
Modes == {ModeOwnerRW, ModeCreated}

NoFile == [kind |-> "absent"]
EmptyFile(mode) == [kind |-> "empty", mode |-> mode]
TornFile(mode) == [kind |-> "torn", mode |-> mode]
JsonFile(mode, data) == [kind |-> "json", mode |-> mode, data |-> data]

\* os.path.isfile
isfile(f) == f.kind # "absent"

\* open(path, 'w'): creates the file, or truncates the one that is there.
OpenW(f) == IF isfile(f) THEN EmptyFile(f.mode) ELSE EmptyFile(ModeCreated)

\* json.dump(data, fp) and the close that flushes it, on a file nobody else
\* has written since it was truncated.
JsonDump(f, data) == JsonFile(f.mode, data)

\* chmod(path, S_IREAD | S_IWRITE)
Chmod_bug_noop(f) == f

Chmod(f) == [f EXCEPT !.mode = ModeOwnerRW]

\* The document _storeUsers writes when there is no file.
InitialData == [version |-> version, users |-> EmptyDict]

\* data['users'] = users
WithUsers(data, users) ==
    [k \in (DOMAIN data) \cup {"users"} |->
        IF k = "users" THEN users ELSE data[k]]

\* Outcomes: the exceptions the code raises, by their messages.
OK == "ok"
ErrVersion == "ValueError: Unexpected version"
ErrExists == "ValueError: User already exists."
ErrNotFound == "ValueError: User does not exist."
\* f'Unexpected hash for user {username}, check file!'
ErrHash(username) ==
    "ValueError: Unexpected hash for user " \o ToString(username)
        \o ", check file!"
ErrJson == "JSONDecodeError"
ErrKey == "KeyError: users"
ErrNoTemp == "FileNotFoundError"


(***************************************************************************)
(* _Storage, run without interruption: each operator maps the file system  *)
(* fs = [canon, temp] to the call's outcome [err, ret, fs].                *)
(***************************************************************************)
Outcome(err, ret, fs) == [err |-> err, ret |-> ret, fs |-> fs]

\* _Storage._loadUsers: [err, users]
loadUsers_bug_no_version_check(f) ==
    IF ~isfile(f) THEN [err |-> OK, users |-> EmptyDict]
    ELSE IF f.kind # "json" THEN [err |-> ErrJson, users |-> EmptyDict]
    ELSE IF "users" \notin DOMAIN f.data
         THEN [err |-> ErrKey, users |-> EmptyDict]
    ELSE [err |-> OK, users |-> f.data.users]

loadUsers(f) ==
    IF ~isfile(f) THEN [err |-> OK, users |-> EmptyDict]
    ELSE IF f.kind # "json" THEN [err |-> ErrJson, users |-> EmptyDict]
    ELSE IF ~("version" \in DOMAIN f.data /\ f.data.version = version)
         THEN [err |-> ErrVersion, users |-> EmptyDict]
    ELSE IF "users" \notin DOMAIN f.data
         THEN [err |-> ErrKey, users |-> EmptyDict]
    ELSE [err |-> OK, users |-> f.data.users]

\* _Storage._storeUsers, one line of the source per LET.
storeUsers_bug_fresh_document(fs, users) ==
    Outcome(OK, None,
            [canon |-> Chmod(JsonDump(OpenW(fs.temp),
                                      WithUsers(InitialData, users))),
             temp |-> NoFile])

storeUsers(fs, users) ==
    LET \* if not isfile: open(filepath, 'w'); json.dump({version, users: {}})
        c1 == IF ~isfile(fs.canon)
              THEN JsonDump(OpenW(fs.canon), InitialData) ELSE fs.canon
    IN  \* open(filepath, 'r'); data = json.load(fp)
        IF c1.kind # "json"
        THEN Outcome(ErrJson, None, [canon |-> c1, temp |-> fs.temp])
        ELSE LET \* data['users'] = users
                 data == WithUsers(c1.data, users)
                 \* open(filepath + '~', 'w'); json.dump(data, wfp)
                 t1 == JsonDump(OpenW(fs.temp), data)
                 \* rename(filepath + '~', filepath)
                 c2 == t1
                 \* chmod(filepath, S_IREAD | S_IWRITE)
                 c3 == Chmod(c2)
             IN  Outcome(OK, None, [canon |-> c3, temp |-> NoFile])

\* _Storage.set
set_bug_not_stored(fs, username, hashed) ==
    LET l == loadUsers(fs.canon)
    IN  IF l.err # OK THEN Outcome(l.err, None, fs)
        ELSE Outcome(OK, None, fs)

set_bug_replaces_all(fs, username, hashed) ==
    LET l == loadUsers(fs.canon)
    IN  IF l.err # OK THEN Outcome(l.err, None, fs)
        ELSE storeUsers(fs, DictSet(EmptyDict, username, hashed))

set(fs, username, hashed) ==
    LET l == loadUsers(fs.canon)
    IN  IF l.err # OK THEN Outcome(l.err, None, fs)
        ELSE storeUsers(fs, DictSet(l.users, username, hashed))

\* _Storage.remove
remove_bug_fails_on_absent(fs, username) ==
    LET l == loadUsers(fs.canon)
    IN  IF l.err # OK THEN Outcome(l.err, None, fs)
        ELSE IF username \notin DOMAIN l.users
             THEN Outcome(ErrNotFound, None, fs)
        ELSE storeUsers(fs, DictPop(l.users, username))

remove(fs, username) ==
    LET l == loadUsers(fs.canon)
    IN  IF l.err # OK THEN Outcome(l.err, None, fs)
        ELSE storeUsers(fs, DictPop(l.users, username))

\* _Storage.get
get(fs, username) ==
    LET l == loadUsers(fs.canon)
    IN  IF l.err # OK THEN Outcome(l.err, None, fs)
        ELSE Outcome(OK, DictGet(l.users, username), fs)

\* d.keys(): the keys of a dict come in the order they were put in, which
\* the file keeps; keys(d) is the set of the orders d's keys can be in.
keys(d) ==
    { k \in [1 .. Cardinality(DOMAIN d) -> DOMAIN d] :
        \A i, j \in DOMAIN k : i # j => k[i] # k[j] }

\* sorted(seq): the elements of seq in ascending order.  Usernames stand
\* for strings by their rank in the lexical order, so <= on them is str's.
sorted_bug_unsorted(seq) == seq

RECURSIVE sorted(_)
sorted(seq) ==
    IF Len(seq) = 0 THEN <<>>
    ELSE LET i == CHOOSE i \in 1 .. Len(seq) :
                     \A j \in 1 .. Len(seq) : seq[i] <= seq[j]
         IN  <<seq[i]>> \o sorted([j \in 1 .. (Len(seq) - 1) |->
                                      IF j < i THEN seq[j] ELSE seq[j + 1]])

\* The keys of the loaded dict as listkeys gets them: in one of the orders
\* of keys(d).  Which one makes no difference to what sorted returns (C14);
\* the descending one is taken, the furthest from sorted's result.
RECURSIVE keysOf(_)
keysOf(d) ==
    IF DOMAIN d = {} THEN <<>>
    ELSE LET x == CHOOSE x \in DOMAIN d : \A y \in DOMAIN d : y <= x
         IN  <<x>> \o keysOf(DictPop(d, x))

\* _Storage.listkeys
listkeys(fs) ==
    LET l == loadUsers(fs.canon)
    IN  IF l.err # OK THEN Outcome(l.err, None, fs)
        ELSE Outcome(OK, List(sorted(keysOf(l.users))), fs)

\* x in list
Contains(seq, x) == \E i \in 1 .. Len(seq) : seq[i] = x

(***************************************************************************)
(* PasswordFile, run without interruption.                                 *)
(***************************************************************************)
\* PasswordFile.hasUser
hasUser(fs, username) ==
    LET k == listkeys(fs)
    IN  IF k.err # OK THEN k
        ELSE Outcome(OK, Bool(Contains(k.ret.list, username)), fs)

\* PasswordFile.listUsernames
listUsernames(fs) == listkeys(fs)

\* PasswordFile.addUser
addUser_bug_overwrites(fs, username, password, salt) ==
    set(fs, username, ph_hash(password, salt))

addUser(fs, username, password, salt) ==
    LET h == hasUser(fs, username)
    IN  IF h.err # OK THEN h
        ELSE IF h.ret = True THEN Outcome(ErrExists, None, fs)
        ELSE set(fs, username, ph_hash(password, salt))

\* PasswordFile.removeUser
removeUser(fs, username) == remove(fs, username)

\* PasswordFile.setPassword
setPassword_bug_creates(fs, username, password, salt) ==
    set(fs, username, ph_hash(password, salt))

setPassword_bug_keeps_hash(fs, username, password, salt) ==
    LET h == hasUser(fs, username)
    IN  IF h.err # OK THEN h
        ELSE IF h.ret # True THEN Outcome(ErrNotFound, None, fs)
        ELSE Outcome(OK, None, fs)

setPassword(fs, username, password, salt) ==
    LET h == hasUser(fs, username)
    IN  IF h.err # OK THEN h
        ELSE IF h.ret # True THEN Outcome(ErrNotFound, None, fs)
        ELSE set(fs, username, ph_hash(password, salt))

\* PasswordFile.validateUser
validateUser_bug_strip(fs, username, password, salt) ==
    LET strip(s) == IF Len(s) > 0 /\ s[Len(s)] = " "
                    THEN SubSeq(s, 1, Len(s) - 1) ELSE s
        g == get(fs, username)
    IN  IF g.err # OK THEN g
        ELSE IF g.ret = None THEN Outcome(OK, False, fs)
        ELSE LET v == ph_verify(g.ret, strip(password))
             IN  IF v = "VerifyMismatchError" THEN Outcome(OK, False, fs)
                 ELSE IF v = "InvalidHash" THEN Outcome(ErrHash(username), None, fs)
                 ELSE IF ph_check_needs_rehash(g.ret)
                 THEN LET s == setPassword(fs, username, password, salt)
                      IN  IF s.err # OK THEN s ELSE Outcome(OK, True, s.fs)
                 ELSE Outcome(OK, True, fs)

validateUser_bug_no_rehash(fs, username, password, salt) ==
    LET g == get(fs, username)
    IN  IF g.err # OK THEN g
        ELSE IF g.ret = None THEN Outcome(OK, False, fs)
        ELSE LET v == ph_verify(g.ret, password)
             IN  IF v = "VerifyMismatchError" THEN Outcome(OK, False, fs)
                 ELSE IF v = "InvalidHash" THEN Outcome(ErrHash(username), None, fs)
                 ELSE Outcome(OK, True, fs)

validateUser_bug_always_rehash(fs, username, password, salt) ==
    LET g == get(fs, username)
    IN  IF g.err # OK THEN g
        ELSE IF g.ret = None THEN Outcome(OK, False, fs)
        ELSE LET v == ph_verify(g.ret, password)
             IN  IF v = "VerifyMismatchError" THEN Outcome(OK, False, fs)
                 ELSE IF v = "InvalidHash" THEN Outcome(ErrHash(username), None, fs)
                 ELSE LET s == setPassword(fs, username, password, salt)
                      IN  IF s.err # OK THEN s ELSE Outcome(OK, True, s.fs)

validateUser_bug_invalid_is_false(fs, username, password, salt) ==
    LET g == get(fs, username)
    IN  IF g.err # OK THEN g
        ELSE IF g.ret = None THEN Outcome(OK, False, fs)
        ELSE LET v == ph_verify(g.ret, password)
             IN  IF v # "True" THEN Outcome(OK, False, fs)
                 ELSE IF ph_check_needs_rehash(g.ret)
                 THEN LET s == setPassword(fs, username, password, salt)
                      IN  IF s.err # OK THEN s ELSE Outcome(OK, True, s.fs)
                 ELSE Outcome(OK, True, fs)

validateUser_bug_unknown_raises(fs, username, password, salt) ==
    LET g == get(fs, username)
    IN  IF g.err # OK THEN g
        ELSE IF g.ret = None THEN Outcome(ErrNotFound, None, fs)
        ELSE LET v == ph_verify(g.ret, password)
             IN  IF v = "VerifyMismatchError" THEN Outcome(OK, False, fs)
                 ELSE IF v = "InvalidHash" THEN Outcome(ErrHash(username), None, fs)
                 ELSE IF ph_check_needs_rehash(g.ret)
                 THEN LET s == setPassword(fs, username, password, salt)
                      IN  IF s.err # OK THEN s ELSE Outcome(OK, True, s.fs)
                 ELSE Outcome(OK, True, fs)

validateUser(fs, username, password, salt) ==
    LET \* hashed = self._storage.get(username)
        g == get(fs, username)
    IN  IF g.err # OK THEN g
        \* hashed is not None and ...
        ELSE IF g.ret = None THEN Outcome(OK, False, fs)
        ELSE LET v == ph_verify(g.ret, password)
             IN  \* except VerifyMismatchError: return False
                 IF v = "VerifyMismatchError" THEN Outcome(OK, False, fs)
                 \* except InvalidHash: raise ValueError
                 ELSE IF v = "InvalidHash" THEN Outcome(ErrHash(username), None, fs)
                 ELSE IF ph_check_needs_rehash(g.ret)
                 THEN \* self.setPassword(username, password); return result
                      LET s == setPassword(fs, username, password, salt)
                      IN  IF s.err # OK THEN s ELSE Outcome(OK, True, s.fs)
                 ELSE Outcome(OK, True, fs)

\* The calls validateUser makes to ph, in the order it makes them: none when
\* hashed is None ('and' does not evaluate its right side), verify
\* otherwise, check_needs_rehash when verify returned, hash as setPassword's
\* argument to _Storage.set when the user is still there.
ph_calls(fs, username, password) ==
    LET g == get(fs, username)
    IN  IF g.err # OK \/ g.ret = None THEN <<>>
        ELSE IF ph_verify(g.ret, password) # "True" THEN <<"verify">>
        ELSE IF ~ph_check_needs_rehash(g.ret)
             THEN <<"verify", "check_needs_rehash">>
        ELSE IF hasUser(fs, username).ret # True
             THEN <<"verify", "check_needs_rehash">>
        ELSE <<"verify", "check_needs_rehash", "hash">>

\* _Storage.__init__ under PasswordFile.__init__: the object exists unless
\* the first _loadUsers raised.
construct(fs) ==
    LET l == loadUsers(fs.canon) IN Outcome(l.err, None, fs)

(***************************************************************************)
(* State.                                                                  *)
(***************************************************************************)
VARIABLES
    canon,   \* the file at filepath
    temp,    \* the file at filepath + '~'
    store,   \* per caller: its PasswordFile object
    last,    \* the most recent completed call
    call     \* per caller: the call it is in, when calls run step by step

vars == <<canon, temp, store, last, call>>

fsNow == [canon |-> canon, temp |-> temp]

\* The username-to-hash mapping a load of file f returns, and whether
\* username u is in it.
UsersOf(f) == loadUsers(f).users
PresentIn(f, u) == loadUsers(f).err = OK /\ u \in DOMAIN UsersOf(f)

Users == UsersOf(canon)
Present(u) == PresentIn(canon, u)

\* A call, as its caller sees it: what was called with which arguments and
\* what it raised (err) or returned (ret); and, for the record, fresh: the
\* object was constructed after the call before this one completed; had:
\* the username was in the store when the call began; wrote: the call left
\* the files different from how it found them.
Call(op, p, u, pw, o) ==
    [op |-> op, fresh |-> (store[p] = "fresh"), user |-> u,
     pw |-> pw, err |-> o.err, ret |-> o.ret,
     had |-> Present(u), wrote |-> (o.fs # fsNow)]

NoCall ==
    [op |-> "none", fresh |-> FALSE, user |-> 0, pw |-> <<>>,
     err |-> OK, ret |-> None, had |-> FALSE, wrote |-> FALSE]

\* A completed call: the file system is as the call left it, the call is
\* the last one, and no object is fresh any more.
Complete(c, fs) ==
    /\ canon' = fs.canon
    /\ temp' = fs.temp
    /\ last' = c
    /\ store' = [q \in Procs |-> IF store[q] = "fresh" THEN "built" ELSE store[q]]
    /\ UNCHANGED call

\* A caller that is in no call.
Idle ==
    [pc |-> "idle", op |-> "none", user |-> 0, pw |-> <<>>,
     d |-> EmptyDict, data |-> EmptyDict, wh |-> "none",
     err |-> OK, ret |-> None, renamed |-> FALSE, canon0 |-> NoFile]

Init ==
    /\ canon = NoFile
    /\ temp = NoFile
    /\ store = [p \in Procs |-> "none"]
    /\ last = NoCall
    /\ call = [p \in Procs |-> Idle]

(***************************************************************************)
(* The calls of one caller at a time.                                      *)
(***************************************************************************)
\* pwd = PasswordFile(filepath)
Construct(p) ==
    /\ store[p] # "fresh"
    /\ store' = [store EXCEPT ![p] =
                    IF construct(fsNow).err = OK THEN "fresh" ELSE "failed"]
    /\ UNCHANGED <<canon, temp, last, call>>

HasObject(p) == store[p] \in {"fresh", "built"}

AddUser(p, u, pw) ==
    /\ HasObject(p)
    /\ \E salt \in Salts :
         LET o == addUser(fsNow, u, pw, salt)
         IN  Complete(Call("addUser", p, u, pw, o), o.fs)

RemoveUser(p, u) ==
    /\ HasObject(p)
    /\ LET o == removeUser(fsNow, u)
       IN  Complete(Call("removeUser", p, u, <<>>, o), o.fs)

ValidateUser(p, u, pw) ==
    /\ HasObject(p)
    /\ \E salt \in Salts :
         LET o == validateUser(fsNow, u, pw, salt)
         IN  Complete(Call("validateUser", p, u, pw, o), o.fs)

SetPassword(p, u, pw) ==
    /\ HasObject(p)
    /\ \E salt \in Salts :
         LET o == setPassword(fsNow, u, pw, salt)
         IN  Complete(Call("setPassword", p, u, pw, o), o.fs)

ListUsernames(p) ==
    /\ HasObject(p)
    /\ LET o == listUsernames(fsNow)
       IN  Complete(Call("listUsernames", p, 0, <<>>, o), o.fs)

HasUser(p, u) ==
    /\ HasObject(p)
    /\ LET o == hasUser(fsNow, u)
       IN  Complete(Call("hasUser", p, u, <<>>, o), o.fs)

(***************************************************************************)
(* The file's other writers: an operator or another program editing the   *)
(* file between calls, as test_rehashIfNecessary and test_conversionNeeded *)
(* do.                                                                     *)
(***************************************************************************)
\* Hashes the store itself did not write: made with weaker parameters, or
\* no argon2 hash at all.
ForeignHashes ==
    {Argon2(WeakParams, "salt1", pw) : pw \in GivenPasswords}
        \cup {GarbageHash}

\* Documents written over the file: an older format, one without a
\* version, and a current one that carries a field besides users.
ForeignData ==
    { [version |-> 2, users |-> EmptyDict],
      [users |-> EmptyDict],
      [version |-> version, users |-> EmptyDict, meta |-> "kept"] }

External(fs) ==
    Complete([NoCall EXCEPT !.op = "external", !.wrote = (fs # fsNow)], fs)

\* data['users'][u] = h; json.dump(data, open(path, 'w'))
ExternalSetHash(u, h) ==
    /\ loadUsers(canon).err = OK
    /\ isfile(canon)
    /\ External([canon |-> JsonDump(OpenW(canon),
                              WithUsers(canon.data, DictSet(Users, u, h))),
                 temp |-> temp])

\* json.dump(data, open(path, 'w'))
ExternalWrite(data) ==
    External([canon |-> JsonDump(OpenW(canon), data), temp |-> temp])

Next ==
    \/ \E p \in Callers : Construct(p)
    \/ \E p \in Callers, u \in Usernames, pw \in GivenPasswords : AddUser(p, u, pw)
    \/ \E p \in Callers, u \in Usernames : RemoveUser(p, u)
    \/ \E p \in Callers, u \in Usernames, pw \in Passwords : ValidateUser(p, u, pw)
    \/ \E p \in Callers, u \in Usernames, pw \in GivenPasswords : SetPassword(p, u, pw)
    \/ \E p \in Callers : ListUsernames(p)
    \/ \E p \in Callers, u \in Usernames : HasUser(p, u)
    \/ \E u \in Usernames, h \in ForeignHashes : ExternalSetHash(u, h)
    \/ \E d \in ForeignData : ExternalWrite(d)

Spec == Init /\ [][Next]_vars

(***************************************************************************)
(* The calls step by step: one step per access to the file system, so that *)
(* the calls of several callers interleave and a caller can die between    *)
(* two steps.  call[p] holds the position (pc) and the locals of p's call: *)
(* d, the mapping to store; data, the document to write; wh, where the     *)
(* file p has open for writing now is: at the canonical path ("canon"), at *)
(* the temporary path ("temp"), or unlinked ("gone"); and for the record   *)
(* renamed: p's rename has happened; canon0: the canonical file when the   *)
(* call began.                                                             *)
(***************************************************************************)
\* The passwords of the calls that run step by step.
StepPasswords == { <<"p">> }

\* The salts a caller draws in them: the callers never draw the same.
StepSalts(p) == IF p \in Callers THEN {"salt1"} ELSE {"salt2"}

Crashed == "killed"

FirstPc(op) ==
    CASE op \in {"addUser", "setPassword"} -> "has"
      [] op = "validateUser" -> "get"
      [] op = "removeUser" -> "remove"
      [] OTHER -> "keys"

At(p, pc) == call[p].pc = pc

Goto(p, c) ==
    /\ call' = [call EXCEPT ![p] = c]
    /\ UNCHANGED <<store, last>>

\* The call returns ret or raises err; a with block closes its file.
Done(c, err, ret) ==
    [c EXCEPT !.pc = "done", !.err = err, !.ret = ret, !.wh = "none",
              !.d = EmptyDict, !.data = EmptyDict]

BeginCall(p, op, u, pw, c0) ==
    /\ At(p, "idle")
    /\ Goto(p, [Idle EXCEPT !.pc = FirstPc(op), !.op = op, !.user = u,
                            !.pw = pw, !.canon0 = c0])
    /\ UNCHANGED <<canon, temp>>

\* A call begins.
Begin(p, op, u, pw) == BeginCall(p, op, u, pw, NoFile)

\* A call begins, and the canonical file as it is now is put on record.
BeginRecorded(p, op, u, pw) == BeginCall(p, op, u, pw, canon)

\* The caller takes the outcome.
Return(p) ==
    /\ At(p, "done")
    /\ Goto(p, Idle)
    /\ UNCHANGED <<canon, temp>>

\* listUsernames, hasUser: listkeys' _loadUsers
StepKeys(p) ==
    /\ At(p, "keys")
    /\ LET c == call[p]
           o == IF c.op = "hasUser" THEN hasUser(fsNow, c.user)
                ELSE listUsernames(fsNow)
       IN  Goto(p, Done(c, o.err, o.ret))
    /\ UNCHANGED <<canon, temp>>

\* addUser, setPassword: if (not) self.hasUser(username): raise
StepHas(p) ==
    /\ At(p, "has")
    /\ LET c == call[p]
           h == hasUser(fsNow, c.user)
       IN  Goto(p, IF h.err # OK THEN Done(c, h.err, None)
                   ELSE IF c.op = "addUser" /\ h.ret = True
                        THEN Done(c, ErrExists, None)
                   ELSE IF c.op # "addUser" /\ h.ret # True
                        THEN Done(c, ErrNotFound, None)
                   ELSE [c EXCEPT !.pc = "set"])
    /\ UNCHANGED <<canon, temp>>

\* validateUser: hashed = self._storage.get(username), ph.verify,
\* ph.check_needs_rehash
StepGet(p) ==
    /\ At(p, "get")
    /\ LET c == call[p]
           g == get(fsNow, c.user)
           v == ph_verify(g.ret, c.pw)
       IN  Goto(p, IF g.err # OK THEN Done(c, g.err, None)
                   ELSE IF g.ret = None THEN Done(c, OK, False)
                   ELSE IF v = "VerifyMismatchError" THEN Done(c, OK, False)
                   ELSE IF v = "InvalidHash" THEN Done(c, ErrHash(c.user), None)
                   ELSE IF ph_check_needs_rehash(g.ret)
                        THEN [c EXCEPT !.pc = "has"]
                   ELSE Done(c, OK, True))
    /\ UNCHANGED <<canon, temp>>

\* _Storage.set: d = self._loadUsers(); d[username] = ph.hash(password)
StepSet(p) ==
    /\ At(p, "set")
    /\ \E salt \in StepSalts(p) :
         LET c == call[p]
             l == loadUsers(canon)
         IN  Goto(p, IF l.err # OK THEN Done(c, l.err, None)
                     ELSE [c EXCEPT !.pc = "isfile",
                             !.d = DictSet(l.users, c.user,
                                           ph_hash(c.pw, salt))])
    /\ UNCHANGED <<canon, temp>>

\* _Storage.remove: d = self._loadUsers(); d.pop(username, None)
StepRemove(p) ==
    /\ At(p, "remove")
    /\ LET c == call[p]
           l == loadUsers(canon)
       IN  Goto(p, IF l.err # OK THEN Done(c, l.err, None)
                   ELSE [c EXCEPT !.pc = "isfile",
                                  !.d = DictPop(l.users, c.user)])
    /\ UNCHANGED <<canon, temp>>

\* _storeUsers: if not isfile(self._filepath)
StoreIsfile(p) ==
    /\ At(p, "isfile")
    /\ Goto(p, [call[p] EXCEPT !.pc = IF isfile(canon) THEN "read" ELSE "create"])
    /\ UNCHANGED <<canon, temp>>

\* _storeUsers: with open(self._filepath, 'w') as fp
StoreCreate(p) ==
    /\ At(p, "create")
    /\ canon' = OpenW(canon)
    /\ Goto(p, [call[p] EXCEPT !.pc = "init", !.wh = "canon"])
    /\ UNCHANGED temp

\* What a file holds after data was dumped into it through a handle opened
\* with 'w': the document, when the file was still as the open left it;
\* when another writer has written to it since, the two writes lie over
\* each other, and the file holds the document or a mixture of the two.
Written(f, data) ==
    IF f.kind = "empty" \/ (f.kind = "json" /\ f.data = data)
    THEN {JsonDump(f, data)}
    ELSE {JsonDump(f, data), TornFile(f.mode)}

\* json.dump(data, fp) and the close, through p's handle.
DumpThrough(p, data) ==
    CASE call[p].wh = "canon" ->
            /\ canon' \in Written(canon, data)
            /\ UNCHANGED temp
      [] call[p].wh = "temp" ->
            /\ temp' \in Written(temp, data)
            /\ UNCHANGED canon
      [] OTHER -> UNCHANGED <<canon, temp>>

\* _storeUsers: json.dump({'version': self.version, 'users': {}}, fp)
StoreInit(p) ==
    /\ At(p, "init")
    /\ DumpThrough(p, InitialData)
    /\ Goto(p, [call[p] EXCEPT !.pc = "read", !.wh = "none"])

\* _storeUsers: with open(self._filepath, 'r') as fp: data = json.load(fp);
\* data['users'] = users
StoreRead(p) ==
    /\ At(p, "read")
    /\ LET c == call[p]
       IN  Goto(p, IF canon.kind # "json" THEN Done(c, ErrJson, None)
                   ELSE [c EXCEPT !.pc = "opentmp", !.d = EmptyDict,
                                  !.data = WithUsers(canon.data, c.d)])
    /\ UNCHANGED <<canon, temp>>

\* _storeUsers: with open(self._filepath + '~', 'w') as wfp
StoreOpenTemp(p) ==
    /\ At(p, "opentmp")
    /\ temp' = OpenW(temp)
    /\ Goto(p, [call[p] EXCEPT !.pc = "dump", !.wh = "temp"])
    /\ UNCHANGED canon

\* _storeUsers: json.dump(data, wfp)
StoreDump(p) ==
    /\ At(p, "dump")
    /\ DumpThrough(p, call[p].data)
    /\ Goto(p, [call[p] EXCEPT !.pc = "rename", !.wh = "none"])

\* The handles after the file at the temporary path has been moved to the
\* canonical path, replacing the file there.
Moved(wh) ==
    CASE wh = "temp" -> "canon"
      [] wh = "canon" -> "gone"
      [] OTHER -> wh

\* _storeUsers: rename(self._filepath + '~', self._filepath)
StoreRename(p) ==
    /\ At(p, "rename")
    /\ IF isfile(temp)
       THEN /\ canon' = temp
            /\ temp' = NoFile
            /\ call' = [q \in Procs |->
                          IF q = p
                          THEN [call[p] EXCEPT !.pc = "chmod", !.renamed = TRUE]
                          ELSE [call[q] EXCEPT !.wh = Moved(call[q].wh)]]
       ELSE /\ call' = [call EXCEPT ![p] = Done(call[p], ErrNoTemp, None)]
            /\ UNCHANGED <<canon, temp>>
    /\ UNCHANGED <<store, last>>

\* _storeUsers: chmod(self._filepath, S_IREAD | S_IWRITE); validateUser
\* returns result, the others None.
StoreChmod(p) ==
    /\ At(p, "chmod")
    /\ canon' = Chmod(canon)
    /\ Goto(p, Done(call[p], OK,
                    IF call[p].op = "validateUser" THEN True ELSE None))
    /\ UNCHANGED temp

\* The caller's process is killed inside a call: what it has not written
\* yet is not written, what it has done stays.
Crash(p) ==
    /\ call[p].pc \notin {"idle", "done"}
    /\ Goto(p, Done(call[p], Crashed, None))
    /\ UNCHANGED <<canon, temp>>

StepCalls ==
    {"addUser", "removeUser", "setPassword", "validateUser", "hasUser"}

Steps(p) ==
    \/ StepKeys(p)
    \/ StepHas(p)
    \/ StepGet(p)
    \/ StepSet(p)
    \/ StepRemove(p)
    \/ StoreIsfile(p)
    \/ StoreCreate(p)
    \/ StoreInit(p)
    \/ StoreRead(p)
    \/ StoreOpenTemp(p)
    \/ StoreDump(p)
    \/ StoreRename(p)
    \/ StoreChmod(p)
    \/ Return(p)

\* The stores the step-by-step runs start from: no file yet, or a file in
\* which username 0 has a hash made with weaker parameters.
StartFiles ==
    { NoFile,
      JsonFile(ModeOwnerRW,
               WithUsers(InitialData,
                         DictSet(EmptyDict, 0,
                                 Argon2(WeakParams, "salt1", <<"p">>)))) }

InitSteps ==
    /\ canon \in StartFiles
    /\ temp = NoFile
    /\ store = [p \in Procs |-> "built"]
    /\ last = NoCall
    /\ call = [p \in Procs |-> Idle]

\* Two callers, their calls interleaved step by step.
NextConc ==
    \E p \in Procs :
        \/ \E op \in StepCalls, u \in Usernames, pw \in StepPasswords :
              Begin(p, op, u, pw)
        \/ Steps(p)

SpecConc == InitSteps /\ [][NextConc]_vars

\* One caller, who may be killed at any step.
NextCrash ==
    \E p \in Callers :
        \/ \E op \in StepCalls, u \in Usernames, pw \in StepPasswords :
              BeginRecorded(p, op, u, pw)
        \/ Steps(p)
        \/ Crash(p)

SpecCrash == InitSteps /\ [][NextCrash]_vars

\* The outcome of call c made on file system fs and run without
\* interruption.
Atomic(c, fs, salt) ==
    CASE c.op = "addUser" -> addUser(fs, c.user, c.pw, salt)
      [] c.op = "removeUser" -> removeUser(fs, c.user)
      [] c.op = "setPassword" -> setPassword(fs, c.user, c.pw, salt)
      [] c.op = "validateUser" -> validateUser(fs, c.user, c.pw, salt)
      [] c.op = "hasUser" -> hasUser(fs, c.user)
      [] OTHER -> listUsernames(fs)

\* A call run step by step by one caller who is not killed ends as the
\* same call run without interruption: the same outcome, the same file.
StepsAgreeWithAtomic ==
    \A p \in Callers :
        (At(p, "done") /\ call[p].err # Crashed) =>
            \E salt \in StepSalts(p) :
                LET o == Atomic(call[p], [canon |-> call[p].canon0,
                                          temp |-> NoFile], salt)
                IN  /\ o.err = call[p].err
                    /\ o.ret = call[p].ret
                    /\ o.fs.canon = canon

(***************************************************************************)
(* Properties of the calls run one after the other (Spec).                 *)
(***************************************************************************)
Loadable == loadUsers(canon).err = OK

\* A step that is a call: every call that is not a repetition of the call
\* before it with nothing changed leaves a new record in last; a
\* construction leaves last as it is.
CallStep == last' # last

\* What a validateUser(u, pw) begun in this state returns, whatever salt a
\* rehash would draw.
ValidateReturns(u, pw, b) ==
    \A salt \in Salts :
        LET o == validateUser(fsNow, u, pw, salt)
        IN  o.err = OK /\ o.ret = b

\* C1: addUser(u, p) on a username that is not in the store succeeds, for
\* every u and p, the empty strings included; a validateUser(u, p) that
\* follows returns true, on the same object and on one constructed since.
C1_AddThenValidate ==
    /\ [](last.op = "addUser" /\ ~last.had /\ Loadable => last.err = OK)
    /\ [](last.op = "addUser" /\ last.err = OK
            => ValidateReturns(last.user, last.pw, True))
    /\ [][( /\ last.op = "addUser" /\ last.err = OK
             /\ CallStep /\ last'.op = "validateUser"
             /\ last'.user = last.user /\ last'.pw = last.pw )
            => (last'.err = OK /\ last'.ret = True)]_vars

C1_Witness ==
    /\ last.op = "addUser" /\ last.err = OK /\ ~last.had
    /\ last.user = 0 /\ last.pw = <<>>

\* C2: after addUser(u, p), validateUser(u, p2) returns false and raises
\* nothing for every password p2 other than p: the empty string, the
\* whitespace-only string, p with a blank appended.
C2_WrongPassword ==
    (last.op = "addUser" /\ last.err = OK)
        => \A pw \in Passwords \ {last.pw} :
              ValidateReturns(last.user, pw, False)

C2_Witness ==
    /\ last.op = "addUser" /\ last.err = OK
    /\ last.pw = <<"p">>
    /\ {<<>>, <<" ">>, <<"p", " ">>} \subseteq Passwords

\* C3: addUser on a username that is in the store raises 'User already
\* exists.' and leaves the files, the user's hash included, as they were.
C3_AddExisting ==
    (last.op = "addUser" /\ last.had)
        => (last.err = ErrExists /\ ~last.wrote)

C3_Witness ==
    last.op = "addUser" /\ last.had /\ last.err = ErrExists

\* C4: setPassword on a username that is not in the store raises 'User does
\* not exist.' and leaves the file as it was: a missing file stays missing,
\* an existing file keeps its content.
C4_SetPasswordUnknown ==
    (last.op = "setPassword" /\ ~last.had /\ Loadable)
        => (last.err = ErrNotFound /\ ~last.wrote)

C4_Witness ==
    /\ last.op = "setPassword" /\ ~last.had /\ last.err = ErrNotFound
    /\ ~isfile(canon)

\* C5: when the stored hash h of u verifies against p and needs a rehash,
\* one validateUser(u, p) returns true and leaves a hash h2 # h of u in the
\* file that needs no rehash and verifies against p; a validateUser(u, p)
\* that follows returns true as well.
C5_RehashOnLogin ==
    /\ [][( /\ CallStep /\ last'.op = "validateUser"
             /\ Present(last'.user)
             /\ ph_verify(DictGet(Users, last'.user), last'.pw) = "True"
             /\ ph_check_needs_rehash(DictGet(Users, last'.user)) )
            => LET u == last'.user
               IN  /\ last'.err = OK /\ last'.ret = True
                   /\ PresentIn(canon', u)
                   /\ UsersOf(canon')[u] # Users[u]
                   /\ ~ph_check_needs_rehash(UsersOf(canon')[u])
                   /\ ph_verify(UsersOf(canon')[u], last'.pw) = "True"]_vars
    /\ [](last.op = "validateUser" /\ last.err = OK /\ last.ret = True
            => /\ ValidateReturns(last.user, last.pw, True)
               /\ ~ph_check_needs_rehash(DictGet(Users, last.user)))

C5_Witness ==
    /\ last.op = "validateUser" /\ last.ret = True /\ last.wrote
    /\ Present(last.user)
    /\ Users[last.user].params = CurrentParams

(***************************************************************************)
(* Properties of the calls run step by step (SpecConc, SpecCrash).         *)
(***************************************************************************)
\* What a reader of a file gets: its bytes, whatever its mode.
Content(f) == IF f.kind = "json" THEN f.data ELSE f.kind

\* C6: the canonical path never holds an empty or torn file, no reader
\* ever fails to parse it, and the only step of a write that changes what
\* the canonical path holds is its rename; from the first write to a file
\* that does not exist yet on, and with several calls writing at once.
C6_ReaderNeverTorn ==
    /\ [](canon.kind \in {"absent", "json"})
    /\ [](\A p \in Procs : call[p].err # ErrJson)
    /\ [][Content(canon') # Content(canon)
            => \E p \in Procs : At(p, "rename") /\ call'[p].renamed]_vars

\* C7: a mutating call killed at any step is all or nothing: killed before
\* its rename, it leaves the canonical file exactly as the call found it
\* (absent, if it was absent); killed after it, it leaves the complete new
\* document there.
C7_AllOrNothing ==
    \A p \in Callers :
        (At(p, "done") /\ call[p].err = Crashed) =>
            IF ~call[p].renamed
            THEN canon = call[p].canon0
            ELSE \E salt \in StepSalts(p) :
                    LET o == Atomic(call[p], [canon |-> call[p].canon0,
                                              temp |-> NoFile], salt)
                    IN  Content(canon) = Content(o.fs.canon)

\* C8: while the file's version is not 3 (or is missing), constructing the
\* store and every call raise 'Unexpected version', and the file is left
\* as it is.
BadVersion ==
    /\ canon.kind = "json"
    /\ ~("version" \in DOMAIN canon.data /\ canon.data.version = version)

StoreCalls ==
    {"addUser", "removeUser", "setPassword", "validateUser",
     "listUsernames", "hasUser"}

C8_VersionRejected ==
    /\ [][BadVersion =>
            /\ \A p \in Callers :
                  (~CallStep /\ store'[p] # store[p]) => store'[p] = "failed"
            /\ (CallStep /\ last'.op \in StoreCalls)
                => /\ last'.err = ErrVersion
                   /\ canon' = canon /\ temp' = temp]_vars
    /\ [](BadVersion /\ last.op \in StoreCalls
            => last.err = ErrVersion /\ ~last.wrote)

C8_Witness ==
    /\ BadVersion
    /\ last.op = "removeUser" /\ last.err = ErrVersion
    /\ store["c1"] = "failed"

\* C9: a username becomes present only by an addUser of it that succeeds
\* and absent only by a removeUser of it; setPassword and a rehashing
\* validateUser keep a present username present; addUser on a present one
\* fails, setPassword on an absent one fails and validateUser on an absent
\* one returns false, none changing who is present; hasUser(u) returns true
\* exactly when u is present.
C9_PresenceMachine ==
    [][(CallStep /\ last'.op \in StoreCalls /\ Loadable) =>
        LET c == last'
            was == PresentIn(canon, c.user)
            is == PresentIn(canon', c.user)
        IN
        /\ \A u \in Usernames :
            /\ (~Present(u) /\ Present(u)')
                 => (c.op = "addUser" /\ c.user = u /\ c.err = OK)
            /\ (Present(u) /\ ~Present(u)')
                 => (c.op = "removeUser" /\ c.user = u)
        /\ c.op = "addUser" =>
              IF was THEN c.err = ErrExists ELSE c.err = OK /\ is
        /\ c.op = "removeUser" => (c.err = OK /\ ~is)
        /\ c.op = "setPassword" =>
              IF was THEN c.err = OK /\ is ELSE c.err = ErrNotFound
        /\ (c.op = "validateUser" /\ was /\ c.wrote) => (c.ret = True /\ is)
        /\ (c.op = "validateUser" /\ ~was) => (c.err = OK /\ c.ret = False)
        /\ c.op = "hasUser" => (c.err = OK /\ c.ret = Bool(was))]_vars

C9_Witness ==
    /\ last.op = "setPassword" /\ last.had /\ last.wrote
    /\ Present(last.user)
    /\ \E u \in Usernames : ~Present(u)

\* C10: removeUser(u) raises nothing whether or not u is in the store;
\* afterwards the mapping is the one before without u: validateUser(u, p)
\* returns false for every p, every other username keeps its hash, and
\* removing a username that is not there leaves the mapping as it was.
C10_Remove ==
    /\ [][(Loadable /\ CallStep /\ last'.op = "removeUser")
            => LET u == last'.user
               IN  /\ last'.err = OK
                   /\ loadUsers(canon').err = OK
                   /\ UsersOf(canon') = DictPop(Users, u)
                   /\ (u \notin DOMAIN Users => UsersOf(canon') = Users)]_vars
    /\ [](last.op = "removeUser" /\ last.err = OK
            => \A pw \in Passwords : ValidateReturns(last.user, pw, False))

C10_Witness ==
    /\ last.op = "removeUser" /\ last.err = OK /\ ~last.had
    /\ DOMAIN Users # {}

(***************************************************************************)
(* validateUser's other outcomes.                                          *)
(***************************************************************************)
\* C11: validateUser(u, p) on a username that has no hash in the store
\* returns false at once: it raises nothing, calls neither ph.verify nor
\* ph.hash, and leaves both files as they are; the value returned is the
\* one a wrong password gets.
C11_UnknownUser ==
    [][( /\ CallStep /\ last'.op = "validateUser"
         /\ Loadable /\ ~Present(last'.user) )
        => /\ last'.err = OK /\ last'.ret = False
           /\ ph_calls(fsNow, last'.user, last'.pw) = <<>>
           /\ canon' = canon /\ temp' = temp
           /\ ~last'.wrote]_vars

C11_Witness ==
    /\ last.op = "validateUser" /\ ~last.had
    /\ last.err = OK /\ last.ret = False
    /\ isfile(canon) /\ Loadable /\ DOMAIN Users # {}

\* C12: validateUser(u, p) on a username whose stored hash is no argon2
\* hash raises 'Unexpected hash for user u, check file!', with u's name and
\* no other in it, instead of returning false; both files stay as they are.
C12_CorruptHash ==
    [][( /\ CallStep /\ last'.op = "validateUser"
         /\ Present(last'.user)
         /\ ph_verify(Users[last'.user], last'.pw) = "InvalidHash" )
        => /\ last'.err = ErrHash(last'.user)
           /\ \A v \in Usernames \ {last'.user} : last'.err # ErrHash(v)
           /\ last'.err # OK /\ last'.ret # False
           /\ canon' = canon /\ temp' = temp
           /\ ~last'.wrote]_vars

C12_Witness ==
    /\ last.op = "validateUser" /\ last.user = 1
    /\ last.err = ErrHash(1)
    /\ Present(1) /\ Users[1] = GarbageHash
    /\ Present(0) /\ Users[0] # GarbageHash

(***************************************************************************)
(* setPassword and listUsernames.                                          *)
(***************************************************************************)
\* C13: setPassword(u, p2) on a username that is in the store raises
\* nothing, whatever hash u had and without being given the old password,
\* and leaves a new hash of p2 for u: from then on validateUser(u, p2)
\* returns true and validateUser(u, p1) false for every other password p1,
\* the one that verified before among them.
C13_SetPasswordOverrides ==
    /\ [][( /\ CallStep /\ last'.op = "setPassword" /\ Present(last'.user) )
            => LET u == last'.user
               IN  /\ last'.err = OK
                   /\ PresentIn(canon', u)
                   /\ UsersOf(canon')[u] \in
                         {ph_hash(last'.pw, salt) : salt \in Salts}
                   /\ \A p1 \in Passwords \ {last'.pw} :
                         ph_verify(UsersOf(canon')[u], p1)
                             = "VerifyMismatchError"]_vars
    /\ [](last.op = "setPassword" /\ last.had
            => /\ last.err = OK
               /\ ValidateReturns(last.user, last.pw, True)
               /\ \A p1 \in Passwords \ {last.pw} :
                     ValidateReturns(last.user, p1, False))

C13_Witness ==
    /\ last.op = "setPassword" /\ last.had /\ last.err = OK /\ last.wrote
    /\ last.pw = <<>>
    /\ ValidateReturns(last.user, <<>>, True)
    /\ ValidateReturns(last.user, <<"p">>, False)

\* C14: listUsernames() returns the usernames that are in the store, each
\* once, in ascending order, in whatever order they were put in.
C14_ListSorted ==
    (last.op = "listUsernames" /\ Loadable) =>
        /\ last.err = OK
        /\ LET seq == last.ret.list
           IN  /\ {seq[i] : i \in 1 .. Len(seq)} = DOMAIN Users
               /\ Len(seq) = Cardinality(DOMAIN Users)
               /\ \A i, j \in 1 .. Len(seq) : i < j => seq[i] < seq[j]
               /\ keysOf(Users) \in keys(Users)
               /\ \A k \in keys(Users) : sorted(k) = seq

C14_Witness ==
    /\ last.op = "listUsernames" /\ last.err = OK
    /\ Cardinality(DOMAIN Users) = MaxUsers
    /\ Cardinality(keys(Users)) > 1
    /\ last.ret = List([i \in 1 .. MaxUsers |-> i - 1])

\* C17: validateUser(u, p) writes the file only when u's stored hash
\* verifies against p and needs a rehash, and then only u's entry changes;
\* for an unknown user, a wrong password, a hash that is no hash and a hash
\* that is up to date both files stay as they are; every other username
\* keeps its hash in all cases, a stale one included.
C17_ValidateFrame ==
    [][(CallStep /\ last'.op = "validateUser") =>
        LET u == last'.user
            rehash == /\ Present(u)
                      /\ ph_verify(Users[u], last'.pw) = "True"
                      /\ ph_check_needs_rehash(Users[u])
        IN  /\ ~rehash => (canon' = canon /\ temp' = temp /\ ~last'.wrote)
            /\ rehash => /\ last'.wrote
                         /\ DOMAIN UsersOf(canon') = DOMAIN Users
                         /\ UsersOf(canon')[u] # Users[u]
            /\ Loadable =>
                  \A v \in Usernames \ {u} :
                      /\ PresentIn(canon', v) <=> Present(v)
                      /\ Present(v) => UsersOf(canon')[v] = Users[v]]_vars

C17_Witness ==
    /\ last.op = "validateUser" /\ last.wrote /\ last.ret = True
    /\ \E v \in Usernames \ {last.user} :
          /\ Present(v)
          /\ ph_verify(Users[v], <<>>) # "InvalidHash"
          /\ ph_check_needs_rehash(Users[v])

(***************************************************************************)
(* What a write leaves of the file.                                        *)
(***************************************************************************)
WritingCalls == {"addUser", "setPassword", "removeUser", "validateUser"}

\* The top-level fields of the document in file f, users left out.
Siblings(f) == [k \in (DOMAIN f.data) \ {"users"} |-> f.data[k]]

\* C19: a write changes the users field and no other: after addUser,
\* setPassword, removeUser or a rehashing validateUser has written, the
\* file holds the version and every other top-level field it held before;
\* a file the write had to create holds the version and users.
C19_OnlyUsersChanges ==
    [][(CallStep /\ last'.op \in WritingCalls /\ canon' # canon) =>
        /\ canon'.kind = "json"
        /\ "users" \in DOMAIN canon'.data
        /\ IF isfile(canon)
           THEN /\ canon.kind = "json"
                /\ Siblings(canon') = Siblings(canon)
           ELSE DOMAIN Siblings(canon') = {"version"}
                    /\ canon'.data.version = version]_vars

C19_Witness ==
    /\ last.op \in WritingCalls /\ last.wrote /\ last.err = OK
    /\ canon.kind = "json"
    /\ "meta" \in DOMAIN canon.data /\ canon.data.meta = "kept"
    /\ DOMAIN Users # {}

(***************************************************************************)
(* Calls of two callers interleaved (SpecConc).                            *)
(***************************************************************************)
\* Where a call is once it has loaded the mapping and is in _storeUsers.
StorePcs ==
    {"isfile", "create", "init", "read", "opentmp", "dump", "rename", "chmod"}

\* C15: when two writing calls have both loaded the mapping before either
\* has stored, both complete and neither raises, and each rename leaves the
\* document of the call that renames at the canonical path, so that the
\* file ends as the mapping of the call that renamed last.  (A call in
\* _storeUsers is disturbed only by another that is there too: alone it
\* ends as StepsAgreeWithAtomic says.)
C15_LastWriterWins ==
    /\ [][\A p \in Procs :
            (call[p].pc \in StorePcs /\ call'[p].pc = "done")
                => call'[p].err = OK]_vars
    /\ [][\A p \in Procs :
            (At(p, "rename") /\ ~At(p, "rename")')
                => /\ call'[p].renamed
                   /\ Content(canon') = call[p].data]_vars

\* C16: a validateUser(u, p) that has verified u's hash and found that it
\* needs a rehash returns true and never raises 'User does not exist.',
\* also when another caller's removeUser(u) lands between its lookup of
\* the hash and the hasUser check of the setPassword it calls.
C16_RehashRecheckHarmless ==
    \A p \in Procs :
        call[p].op = "validateUser" => call[p].err # ErrNotFound

\* C18: a username that is not in the store, having been removed, is put
\* back by no step of a setPassword or of a validateUser for it, whatever
\* was in the store when that call began: only an addUser makes an absent
\* username present.
C18_RemovedStaysAbsent ==
    [][\A p \in Procs :
        ( /\ call[p].op \in {"setPassword", "validateUser"}
          /\ call'[p].pc # call[p].pc
          /\ Loadable /\ ~Present(call[p].user) )
            => ~PresentIn(canon', call[p].user)]_vars

(***************************************************************************)
(* The file's mode (SpecCrash: one caller, step by step).                  *)
(***************************************************************************)
\* C20: when addUser, setPassword, removeUser or a rehashing validateUser
\* has completed its write, the canonical file is readable and writable by
\* its owner and by nobody else, whatever mode the temporary file and the
\* file that was there before had; the chmod is the write's last step: it
\* follows the rename directly and the call ends with it.
C20_ModeAfterWrite ==
    /\ [](\A p \in Callers :
            (At(p, "done") /\ call[p].err = OK) =>
                /\ call[p].op \in {"addUser", "setPassword", "removeUser"}
                      => call[p].renamed
                /\ call[p].renamed => canon.mode = ModeOwnerRW)
    /\ [](\A p \in Callers : At(p, "chmod") => call[p].renamed)
    /\ [][\A p \in Callers :
            /\ (~call[p].renamed /\ call'[p].renamed)
                  => (At(p, "rename") /\ At(p, "chmod")')
            /\ (At(p, "chmod") /\ ~At(p, "chmod")' /\ call'[p].err # Crashed)
                  => /\ At(p, "done")' /\ call'[p].err = OK
                     /\ canon'.mode = ModeOwnerRW
                     /\ Content(canon') = Content(canon)]_vars

C20_Witness ==
    \E p \in Callers :
        /\ At(p, "done") /\ call[p].err = OK /\ call[p].renamed
        /\ isfile(call[p].canon0) /\ call[p].canon0.mode = ModeCreated
        /\ canon.mode = ModeOwnerRW

=============================================================================
